---- MODULE Spec2Model ----
(***************************************************************************)
(* Model of src/relay/tcprelay/local.rs (shadowsocks-rust, TcpRelayLocal). *)
(*                                                                         *)
(* Two state machines share this module:                                   *)
(*   Spec      the acceptor loop of run_server with the upstream selector  *)
(*             (round-robin cursor, DNS cache, forbidden-IP screen);       *)
(*   SpecConn  one accepted connection after the handler was invoked: the  *)
(*             SOCKS5 front-end, the HTTP front-end, the two relay pump    *)
(*             tasks and the HTTP keep-alive driver.                       *)
(***************************************************************************)
EXTENDS Naturals, Sequences, FiniteSets

\* ------------------------------------------------------------------ bounds
MaxPool == 2
MaxAccept == 3
MaxDnsChanges == 1

\* ------------------------------------------------------ acceptor: universe
Hosts == {"h1", "h2"}
IPs == {"ip1", "ip2"}
NoAddr == "none"
\* Outcomes of std::net::lookup_host: Err, Ok with an empty iterator, or Ok
\* whose first address has the given IP.
LookupErr == "lookup_err"
LookupEmpty == "lookup_empty"
LookupOutcomes == {LookupErr, LookupEmpty} \cup IPs

VARIABLES
    server,         \* config.server: the upstream pool, a sequence of host strings
    forbidden_ip,   \* config.forbidden_ip
    dns,            \* environment: what lookup_host answers for each host now
    dnsChanges,     \* environment: number of times the DNS answers changed
    index,          \* RoundRobin cursor of server_load_balancer
    cached_proxy,   \* cached_proxy: BTreeMap<String, SocketAddr>
    acpt,           \* position of the acceptor task in run_server
    attempt,        \* iterations done of `for _ in 0..total()` for this connection
    accepted,       \* number of connections returned by acceptor.incoming()
    handed,         \* handler invocations so far: <<[conn, slot, ip, port]>>
    dropped,        \* connections that left the loop body without a handler call
    qlog            \* history of the selector's address queries, per host

acptVars == <<server, forbidden_ip, dns, dnsChanges, index, cached_proxy, acpt,
              attempt, accepted, handed, dropped, qlog>>

\* ---------------------------------------------------- connection: universe
MaxPayload == 2
MaxResp == 1
MaxReqs == 2
MaxIoErrs == 1

VARIABLES
    proto,          \* which handler run_server was given: "socks5" (run_tcp) or "http" (run_http)
    enable_udp,     \* conf.enable_udp (with the enable-udp feature)
    cin,            \* environment: bytes of the client that the local socket has yet to return
    rin,            \* environment: bytes of the remote that decrypt_stream has yet to return
    ioErrs,         \* environment: I/O failures injected so far
    fe,             \* position of the front-end task
    l2r,            \* position of the local -> remote task
    r2l,            \* position of the local <- remote task
    dialed,         \* outcome of super::connect_proxy_server: "no", "ok", "failed"
    lwbuf,          \* bytes held by the BufWriter of the SOCKS5 local_writer
    cout,           \* bytes written to the local socket, in order
    encOut,         \* bytes written to encrypt_stream, in order
    lShut,          \* shutdown(Shutdown::Both) was called on the local socket
    rShut,          \* shutdown(Shutdown::Both) was called on the upstream socket
    holders,        \* tasks that own a handle (clone) of the local socket
    req_buf,        \* req_buf of handle_http_client / of the keep-alive driver
    req,            \* the HttpRequest handed to handle_http_connect / handle_http_others
    remain,         \* remain: &req_buf[reqlen..] handed on by handle_http_client
    remain_len,     \* remain_len of the keep-alive driver
    hist            \* history of the connection (observations only, never read by the code)

connVars == <<proto, enable_udp, cin, rin, ioErrs, fe, l2r, r2l, dialed, lwbuf, cout,
              encOut, lShut, rShut, holders, req_buf, req, remain, remain_len, hist>>

vars == <<acptVars, connVars>>

\* RoundRobin::total
total == Len(server)

\* RoundRobin::pick_server: advance the cursor modulo the pool size and choose
\* the config at that slot.
pick_server_index(i) == (i + 1) % total

\* ServerConfig at a slot: the configured host and port (the port of slot i is i).
server_cfg(slot) == [addr |-> server[slot + 1], port |-> slot]

\* The address resolution without the cache: every query calls lookup_host.
ResolveCandidateMut(host) ==
    IF dns[host] \in IPs
    THEN [ok |-> TRUE, ip |-> dns[host], looked |-> TRUE]
    ELSE [ok |-> FALSE, ip |-> NoAddr, looked |-> TRUE]

\* The address resolution of one candidate (local.rs 634-659): a cache hit
\* reuses the entry; a miss calls lookup_host and caches the first address.
ResolveCandidate(host) ==
    IF cached_proxy[host] # NoAddr
    THEN [ok |-> TRUE, ip |-> cached_proxy[host], looked |-> FALSE]
    ELSE IF dns[host] \in IPs
         THEN [ok |-> TRUE, ip |-> dns[host], looked |-> TRUE]
         ELSE [ok |-> FALSE, ip |-> NoAddr, looked |-> TRUE]

\* The history of the queries of one host after one more query with result
\* res: whether the host was queried, whether a query has produced an
\* address, and whether lookup_host was called again after either.
Queried(log, res) ==
    [queried |-> TRUE,
     resolved |-> log.resolved \/ res.ok,
     relooked |-> log.relooked \/ (log.queried /\ res.looked),
     relooked_resolved |-> log.relooked_resolved \/ (log.resolved /\ res.looked)]

NotQueried ==
    [queried |-> FALSE, resolved |-> FALSE, relooked |-> FALSE,
     relooked_resolved |-> FALSE]

\* The forbidden-IP screen (local.rs 671-674).
IsForbiddenMut(ip) == FALSE
IsForbidden(ip) == ip \in forbidden_ip

InitAcceptor ==
    /\ server \in UNION {[1..n -> Hosts] : n \in 1..MaxPool}
    /\ forbidden_ip \in SUBSET IPs
    /\ dns \in [Hosts -> LookupOutcomes]
    /\ dnsChanges = 0
    /\ index = 0
    /\ cached_proxy = [h \in Hosts |-> NoAddr]
    /\ acpt = "accept"
    /\ attempt = 0
    /\ accepted = 0
    /\ handed = <<>>
    /\ dropped = 0
    /\ qlog = [h \in Hosts |-> NotQueried]

\* acceptor.incoming() yields the next item (local.rs 610-619): a connection,
\* or an error, on which run_server panics.
Accept ==
    /\ acpt = "accept"
    /\ accepted < MaxAccept
    /\ \E ok \in BOOLEAN :
          IF ok
          THEN /\ acpt' = "opts"
               /\ accepted' = accepted + 1
          ELSE /\ acpt' = "panicked"
               /\ accepted' = accepted
    /\ UNCHANGED <<server, forbidden_ip, dns, dnsChanges, index, cached_proxy,
                   attempt, handed, dropped, qlog>>
    /\ UNCHANGED connVars

\* set_read_timeout and set_nodelay with the upstream picked before them: a
\* connection dropped for its socket options has moved the cursor.
SetSocketOptionsMut ==
    /\ acpt = "opts"
    /\ \E timeout_ok \in BOOLEAN, nodelay_ok \in BOOLEAN :
          IF timeout_ok /\ nodelay_ok
          THEN /\ acpt' = "pick"
               /\ attempt' = 0
               /\ dropped' = dropped
               /\ index' = index
          ELSE /\ acpt' = "accept"
               /\ attempt' = attempt
               /\ dropped' = dropped + 1
               /\ index' = (index + 1) % Len(server)
    /\ UNCHANGED <<server, forbidden_ip, dns, dnsChanges, cached_proxy,
                   accepted, handed, qlog>>
    /\ UNCHANGED connVars

\* set_read_timeout and set_nodelay (local.rs 621-631): on a failure of either
\* the loop continues with the next connection; otherwise the pick loop starts.
SetSocketOptions ==
    /\ acpt = "opts"
    /\ \E timeout_ok \in BOOLEAN, nodelay_ok \in BOOLEAN :
          IF timeout_ok /\ nodelay_ok
          THEN /\ acpt' = "pick"
               /\ attempt' = 0
               /\ dropped' = dropped
          ELSE /\ acpt' = "accept"
               /\ attempt' = attempt
               /\ dropped' = dropped + 1
    /\ UNCHANGED <<server, forbidden_ip, dns, dnsChanges, index, cached_proxy,
                   accepted, handed, qlog>>
    /\ UNCHANGED connVars

\* `server_load_balancer.pick_server()` as run_server calls it: once per
\* iteration, on the cursor the previous call left.
pick_serverMut(i) == i
pick_server(i) == pick_server_index(i)

\* One iteration of the loop without the `break` after the handler call: the
\* loop goes on to the next candidate with the connection already handed.
PickCandidateMut ==
    /\ acpt = "pick"
    /\ attempt < total
    /\ LET slot == pick_server(index)
           cfg == server_cfg(slot)
           res == ResolveCandidate(cfg.addr)
       IN  /\ index' = slot
           /\ qlog' = [qlog EXCEPT ![cfg.addr] = Queried(@, res)]
           /\ cached_proxy' = IF res.ok
                              THEN [cached_proxy EXCEPT ![cfg.addr] = res.ip]
                              ELSE cached_proxy
           /\ handed' = IF res.ok /\ ~IsForbidden(res.ip)
                        THEN Append(handed, [conn |-> accepted, slot |-> slot,
                                             ip |-> res.ip, port |-> cfg.port])
                        ELSE handed
           /\ acpt' = "pick"
           /\ attempt' = attempt + 1
    /\ UNCHANGED <<server, forbidden_ip, dns, dnsChanges, accepted, dropped>>
    /\ UNCHANGED connVars

\* One iteration of `for _ in 0..server_load_balancer.total()` (local.rs 632-688).
PickCandidate ==
    /\ acpt = "pick"
    /\ attempt < total
    /\ LET slot == pick_server(index)
           cfg == server_cfg(slot)
           res == ResolveCandidate(cfg.addr)
       IN  /\ index' = slot
           /\ qlog' = [qlog EXCEPT ![cfg.addr] = Queried(@, res)]
           /\ cached_proxy' = IF res.ok
                              THEN [cached_proxy EXCEPT ![cfg.addr] = res.ip]
                              ELSE cached_proxy
           /\ IF res.ok /\ ~IsForbidden(res.ip)
              THEN \* handler(stream, server_addr, pwd, encrypt_method, conf); break
                   /\ handed' = Append(handed, [conn |-> accepted, slot |-> slot,
                                                ip |-> res.ip, port |-> cfg.port])
                   /\ acpt' = "accept"
                   /\ attempt' = attempt
              ELSE \* continue
                   /\ handed' = handed
                   /\ acpt' = "pick"
                   /\ attempt' = attempt + 1
    /\ UNCHANGED <<server, forbidden_ip, dns, dnsChanges, accepted, dropped>>
    /\ UNCHANGED connVars

\* The pick loop ended with succeed = false (local.rs 690-692): panic.
AllServersFailed ==
    /\ acpt = "pick"
    /\ attempt = total
    /\ acpt' = "panicked"
    /\ dropped' = dropped + 1
    /\ UNCHANGED <<server, forbidden_ip, dns, dnsChanges, index, cached_proxy,
                   attempt, accepted, handed, qlog>>
    /\ UNCHANGED connVars

\* Environment: the answer of the system resolver for one host changes.
DnsChange ==
    /\ dnsChanges < MaxDnsChanges
    /\ acpt # "panicked"
    /\ \E h \in Hosts, o \in LookupOutcomes :
          /\ o # dns[h]
          /\ dns' = [dns EXCEPT ![h] = o]
    /\ dnsChanges' = dnsChanges + 1
    /\ UNCHANGED <<server, forbidden_ip, index, cached_proxy, acpt, attempt,
                   accepted, handed, dropped, qlog>>
    /\ UNCHANGED connVars

NextAcceptor ==
    \/ Accept
    \/ SetSocketOptions
    \/ PickCandidate
    \/ AllServersFailed
    \/ DnsChange

\* ------------------------------------------------- connection: byte streams
Take(s, n) == SubSeq(s, 1, n)
Drop(s, n) == SubSeq(s, n + 1, Len(s))
Min(a, b) == IF a <= b THEN a ELSE b
Prefixes(S) == UNION {{Take(s, k) : k \in 0..Len(s)} : s \in S}

\* Opaque payload bytes of the client and response bytes of the remote.
PayloadBytes == <<"p1", "p2", "p3", "p4">>
RespBytes == <<"r1", "r2", "r3", "r4">>
Payloads == {Take(PayloadBytes, k) : k \in 0..MaxPayload}
Responses == {Take(RespBytes, k) : k \in 0..MaxResp}

\* SOCKS5 records of the client, one token per record (the wire codec is
\* relay::socks5): a greeting whose method list holds no-auth or not, and a
\* request with its command.
Greetings == {"HS_NOAUTH", "HS_GSSAPI"}
Requests == {"RQ_CONNECT", "RQ_BIND", "RQ_UDP", "RQ_BAD"}
SocksStreams ==
    Prefixes({<<g, q>> \o p : g \in Greetings, q \in Requests, p \in Payloads})

\* HTTP heads are token sequences: a request line, an optional Content-Length
\* header, and the empty line ending the head.  A request line names method and
\* request-target form: G/P = GET/POST, A = absolute-form, O = origin-form;
\* "CN" is CONNECT host:port; "GB" parses as a head but is refused by
\* HttpRequest::from_raw; "X" is no request line at all.  "b" is a body byte.
RequestLines == {"GA", "PA", "GO", "PO", "GB", "CN"}
ContentLengthHeaders == {"CL2"}
AbsoluteForm == {"GA", "PA"}
RequestShapes ==
    { <<"GA", "E">>, <<"PA", "CL2", "E", "b", "b">>, <<"GO", "E">>, <<"GB", "E">>, <<"X">> }

\* The streams of up to n requests; nothing follows an "X", after which no
\* head parses any more.
RECURSIVE RequestStreams(_)
RequestStreams(n) ==
    IF n = 0 THEN {<<>>}
    ELSE LET shorter == RequestStreams(n - 1)
             open == {s \in shorter : s = <<>> \/ s[Len(s)] # "X"}
         IN  shorter \cup {s \o q : s \in open, q \in RequestShapes}

\* The forward-proxy streams: a first request that handle_http_client refuses
\* (origin-form, refused by from_raw, or no head) ends the connection, so only
\* a first request in absolute form is followed by further requests.
ForwardStreams ==
    RequestShapes
    \cup {f \o s : f \in {q \in RequestShapes : q[1] \in AbsoluteForm},
                   s \in RequestStreams(MaxReqs - 1)}

HttpStreams ==
    Prefixes(ForwardStreams \cup {<<"CN", "E">> \o p : p \in Payloads})

IsResp(b) == \E i \in 1..Len(RespBytes) : RespBytes[i] = b

\* httparse::Request::parse on the bytes of req_buf.
ParseHead(buf) ==
    IF buf = <<>> THEN [status |-> "Partial", reqlen |-> 0]
    ELSE IF buf[1] \notin RequestLines THEN [status |-> "Error", reqlen |-> 0]
    ELSE IF Len(buf) = 1 THEN [status |-> "Partial", reqlen |-> 0]
    ELSE IF buf[2] = "E" THEN [status |-> "Complete", reqlen |-> 2]
    ELSE IF buf[2] \notin ContentLengthHeaders THEN [status |-> "Error", reqlen |-> 0]
    ELSE IF Len(buf) = 2 THEN [status |-> "Partial", reqlen |-> 0]
    ELSE IF buf[3] = "E" THEN [status |-> "Complete", reqlen |-> 3]
    ELSE [status |-> "Error", reqlen |-> 0]

NoRequest == [ok |-> FALSE, method |-> "none", uri |-> "none", content_length |-> 0]

\* HttpRequest::from_raw on a complete head of reqlen tokens.
from_raw(buf, reqlen) ==
    IF buf[1] = "GB" THEN NoRequest
    ELSE [ok |-> TRUE,
          method |-> CASE buf[1] \in {"GA", "GO"} -> "GET"
                       [] buf[1] \in {"PA", "PO"} -> "POST"
                       [] OTHER -> "CONNECT",
          uri |-> CASE buf[1] \in AbsoluteForm -> "absolute"
                    [] buf[1] = "CN" -> "authority"
                    [] OTHER -> "origin",
          content_length |-> IF reqlen = 3 THEN 2 ELSE 0]

\* super::http::get_address: the destination of a request target; an
\* origin-form target has none.
get_address_ok(request) == request.uri \in {"absolute", "authority"}

\* HttpRequest::clear_request_uri_host: strips scheme and authority.
clear_request_uri_host(request) ==
    IF request.uri = "absolute" THEN [request EXCEPT !.uri = "origin"] ELSE request

\* HttpRequest::write_to: the head as it is serialised for the remote.
write_to(request) ==
    << CASE request.method = "CONNECT" -> "CN"
         [] request.method = "GET" /\ request.uri = "absolute" -> "GA"
         [] request.method = "GET" -> "GO"
         [] request.method = "POST" /\ request.uri = "absolute" -> "PA"
         [] OTHER -> "PO" >>
    \o (IF request.content_length = 2 THEN <<"CL2">> ELSE <<>>)
    \o <<"E">>

\* The payload a client stream carries after a CONNECT (SOCKS5 or HTTP).
PayloadOf(p, stream) ==
    IF p = "socks5"
    THEN IF Len(stream) >= 2 /\ stream[1] = "HS_NOAUTH" /\ stream[2] = "RQ_CONNECT"
         THEN Drop(stream, 2) ELSE <<>>
    ELSE IF Len(stream) >= 2 /\ stream[1] = "CN" /\ stream[2] = "E"
         THEN Drop(stream, 2) ELSE <<>>

\* ------------------------------------------------- connection: state update
Cur ==
    [proto |-> proto, enable_udp |-> enable_udp, cin |-> cin, rin |-> rin,
     ioErrs |-> ioErrs, fe |-> fe, l2r |-> l2r, r2l |-> r2l, dialed |-> dialed,
     lwbuf |-> lwbuf, cout |-> cout, encOut |-> encOut, lShut |-> lShut,
     rShut |-> rShut, holders |-> holders, req_buf |-> req_buf, req |-> req,
     remain |-> remain, remain_len |-> remain_len, hist |-> hist]

Set(r) ==
    /\ proto' = r.proto /\ enable_udp' = r.enable_udp /\ cin' = r.cin /\ rin' = r.rin
    /\ ioErrs' = r.ioErrs /\ fe' = r.fe /\ l2r' = r.l2r /\ r2l' = r.r2l
    /\ dialed' = r.dialed /\ lwbuf' = r.lwbuf /\ cout' = r.cout /\ encOut' = r.encOut
    /\ lShut' = r.lShut /\ rShut' = r.rShut /\ holders' = r.holders
    /\ req_buf' = r.req_buf /\ req' = r.req /\ remain' = r.remain
    /\ remain_len' = r.remain_len /\ hist' = r.hist
    /\ UNCHANGED acptVars

\* The environment may fail an I/O operation while its budget lasts.
FailSet == IF ioErrs < MaxIoErrs THEN BOOLEAN ELSE {FALSE}
Failed(r) == [r EXCEPT !.ioErrs = @ + 1]

\* The front-end function returns without having spawned the relay tasks: its
\* locals are dropped.  Dropping the BufWriter writes out what it still holds;
\* dropping the last handles closes the local socket.
Return(r) ==
    [r EXCEPT !.fe = "done", !.holders = {}, !.cout = @ \o r.lwbuf, !.lwbuf = <<>>,
              !.req_buf = <<>>, !.remain = <<>>]

InitHist(p, stream, resp) ==
    [payload |-> PayloadOf(p, stream), resp |-> resp, addr |-> FALSE,
     body_fwd |-> 0, cur_cl |-> 0, l2r_err |-> FALSE, fwd_after_err |-> FALSE,
     l2r_exit |-> "none", l2r_shutdown |-> FALSE, r2l_shutdown |-> FALSE,
     ka_eof |-> "none", fwd_after_eof |-> FALSE,
     bad_head |-> "none", fwd_after_bad |-> FALSE,
     greeting |-> "none", command |-> "none", req_err |-> "none",
     no_addr |-> FALSE]

InitConn ==
    /\ proto \in {"socks5", "http"}
    /\ enable_udp \in (IF proto = "socks5" THEN BOOLEAN ELSE {FALSE})
    /\ cin \in (IF proto = "socks5" THEN SocksStreams ELSE HttpStreams)
    /\ rin \in Responses
    /\ ioErrs = 0
    /\ fe = "start"
    /\ l2r = "none"
    /\ r2l = "none"
    /\ dialed = "no"
    /\ lwbuf = <<>>
    /\ cout = <<>>
    /\ encOut = <<>>
    /\ lShut = FALSE
    /\ rShut = FALSE
    /\ holders = {"fe"}
    /\ req_buf = <<>>
    /\ req = NoRequest
    /\ remain = <<>>
    /\ remain_len = 0
    /\ hist = InitHist(proto, cin, rin)

\* The connection part while only the acceptor is modelled: no connection.
ConnIdle ==
    /\ proto = "none" /\ enable_udp = FALSE /\ cin = <<>> /\ rin = <<>> /\ ioErrs = 0
    /\ fe = "none" /\ l2r = "none" /\ r2l = "none" /\ dialed = "no" /\ lwbuf = <<>>
    /\ cout = <<>> /\ encOut = <<>> /\ lShut = FALSE /\ rShut = FALSE /\ holders = {}
    /\ req_buf = <<>> /\ req = NoRequest /\ remain = <<>> /\ remain_len = 0
    /\ hist = InitHist("none", <<>>, <<>>)

\* ------------------------------------------------- connection: socket reads
\* What a read of the local socket can return: some of the bytes that have
\* arrived, end of file once the client has sent everything, or an error
\* (read timeout included).  After shutdown(Both) on the socket a read returns
\* end of file, or, on some platforms, bytes that were already queued.
LocalReads ==
    {[kind |-> "data", n |-> k] : k \in 1..Len(cin)}
    \cup (IF cin = <<>> \/ lShut THEN {[kind |-> "eof", n |-> 0]} ELSE {})
    \cup (IF ioErrs < MaxIoErrs THEN {[kind |-> "err", n |-> 0]} ELSE {})

\* The same for a read of decrypt_stream.
RemoteReads ==
    {[kind |-> "data", n |-> k] : k \in 1..Len(rin)}
    \cup (IF rin = <<>> \/ rShut THEN {[kind |-> "eof", n |-> 0]} ELSE {})
    \cup (IF ioErrs < MaxIoErrs THEN {[kind |-> "err", n |-> 0]} ELSE {})

\* Whether a write fails: always after shutdown(Both) on the socket written
\* to, otherwise when the environment fails it.
WriteFails(shut) == IF shut THEN {TRUE} ELSE FailSet
FailedUnless(shut, r) == IF shut THEN r ELSE Failed(r)

\* --------------------------------------------------- SOCKS5 front-end task
\* The reply code a failed TcpRequestHeader::read_from suggests (err.reply).
ParserReply(stream) ==
    IF stream = <<>> THEN "REP_GeneralFailure_sockname"
    ELSE "REP_AddressTypeNotSupported_sockname"

\* do_handshake: req.methods.contains(&socks5::SOCKS5_AUTH_METHOD_NONE).
AcceptsNoAuthMut(greeting) == TRUE
AcceptsNoAuth(greeting) == greeting = "HS_NOAUTH"

\* handle_tcp_client up to the flush of the method reply, with do_handshake.
SocksHandshake ==
    /\ proto = "socks5"
    /\ fe = "start"
    /\ \E f \in FailSet :
          IF f
          THEN \* peer_addr, try_clone, the read, the write or the flush fails
               Set(Return(Failed([Cur EXCEPT !.lwbuf = <<>>])))
          ELSE IF cin = <<>> \/ Head(cin) \notin Greetings
          THEN Set(Return(Cur))
          ELSE IF ~AcceptsNoAuth(Head(cin))
          THEN Set(Return([Cur EXCEPT !.cin = Tail(cin),
                                      !.lwbuf = <<"M_NOT_ACCEPTABLE">>,
                                      !.hist.greeting = Head(cin)]))
          ELSE Set([Cur EXCEPT !.cin = Tail(cin), !.cout = @ \o <<"M_NONE">>,
                               !.fe = "request", !.hist.greeting = Head(cin)])

\* The Err arm of the match on TcpRequestHeader::read_from: what is written to
\* local_writer, a TcpResponseHeader of err.reply and sockname.
FailureHeaderMut(reply) == <<>>
FailureHeader(reply) == <<reply>>

\* TcpRequestHeader::read_from and the dispatch on header.command.
SocksRequest ==
    /\ proto = "socks5"
    /\ fe = "request"
    /\ \E f \in FailSet :
          IF f
          THEN Set(Return(Failed([Cur EXCEPT
                          !.lwbuf = FailureHeader("REP_GeneralFailure_sockname"),
                          !.hist.req_err = "io"])))
          ELSE IF cin = <<>> \/ Head(cin) \notin (Requests \ {"RQ_BAD"})
          THEN Set(Return([Cur EXCEPT !.cin = IF cin = <<>> THEN <<>> ELSE Tail(cin),
                                      !.lwbuf = FailureHeader(ParserReply(cin)),
                                      !.hist.req_err = IF cin = <<>> THEN "eof" ELSE "bad"]))
          ELSE Set([Cur EXCEPT !.cin = Tail(cin),
                               !.hist.addr = TRUE,
                               !.hist.command = Head(cin),
                               !.fe = CASE Head(cin) = "RQ_CONNECT" -> "connect"
                                        [] Head(cin) = "RQ_BIND" -> "bind"
                                        [] OTHER -> "udp_associate"])

\* The relay tasks of a SOCKS5 CONNECT are spawned: the local reader moves to
\* the local -> remote task, the buffered local writer to the other one.
SpawnSocksRelay(r) ==
    [r EXCEPT !.fe = "done", !.holders = {"l2r", "r2l"}, !.l2r = "copy",
              !.r2l = "take_writer"]

\* The Err arm of the match on super::connect_proxy_server: the front-end
\* function returns.
DialFailedMut(r) ==
    [r EXCEPT !.dialed = "failed", !.fe = "done", !.holders = {"l2r", "r2l"},
              !.l2r = "copy", !.r2l = "copy", !.encOut = @ \o r.remain,
              !.req_buf = <<>>, !.remain = <<>>]
DialFailed(r) == Return([r EXCEPT !.dialed = "failed"])

\* `Send header to client`: the Succeeded header with sockname is written to
\* local_writer and flushed.
SuccessReplyMut(r) == r
SuccessReply(r) == [r EXCEPT !.cout = @ \o <<"REP_Succeeded_sockname">>]

\* Command::TcpConnect: dial, success reply, spawn.
SocksConnect ==
    /\ proto = "socks5"
    /\ fe = "connect"
    /\ \E dial_ok \in BOOLEAN, f \in FailSet :
          IF ~dial_ok
          THEN /\ ~f
               /\ Set(DialFailed(Cur))
          ELSE IF f
          THEN Set(Return(Failed([Cur EXCEPT !.dialed = "ok"])))
          ELSE Set(SpawnSocksRelay(SuccessReply([Cur EXCEPT !.dialed = "ok"])))

\* The header written for Command::TcpBind: CommandNotSupported with the
\* address of the request.
BindReplyMut == "REP_Succeeded_addr"
BindReply == "REP_CommandNotSupported_addr"

\* Command::TcpBind.
SocksBind ==
    /\ proto = "socks5"
    /\ fe = "bind"
    /\ \E f \in FailSet :
          IF f
          THEN Set(Return(Failed(Cur)))
          ELSE Set(Return([Cur EXCEPT !.lwbuf = <<BindReply>>]))

\* The header written for Command::UdpAssociate: that of
\* handle_udp_associate_local when `cfg!(feature = "enable-udp") && conf.enable_udp`,
\* CommandNotSupported with the address of the request otherwise.
UdpReplyMut(enabled) == "REP_CommandNotSupported_addr"
UdpReply(enabled) ==
    IF enabled THEN "REP_Succeeded_localconf" ELSE "REP_CommandNotSupported_addr"

\* Command::UdpAssociate, with handle_udp_associate_local.
SocksUdpAssociate ==
    /\ proto = "socks5"
    /\ fe = "udp_associate"
    /\ \E f \in FailSet :
          IF f
          THEN Set(Return(Failed(Cur)))
          ELSE Set(Return([Cur EXCEPT !.lwbuf = <<UdpReply(enable_udp)>>]))

\* ------------------------------------------------------- relay pump tasks
\* One iteration of the loop around copy_once(local_reader, encrypt_stream).
L2RCopy ==
    /\ l2r = "copy"
    /\ \E rd \in LocalReads :
          CASE rd.kind = "data" ->
                 \E wf \in WriteFails(rShut) :
                    IF wf
                    THEN Set(FailedUnless(rShut,
                             [Cur EXCEPT !.cin = Drop(cin, rd.n), !.l2r = "closing",
                                         !.hist.l2r_err = TRUE,
                                         !.hist.l2r_exit = "write_err"]))
                    ELSE Set([Cur EXCEPT !.cin = Drop(cin, rd.n),
                                         !.encOut = @ \o Take(cin, rd.n)])
            [] rd.kind = "eof" ->
                 Set([Cur EXCEPT !.l2r = "closing", !.hist.l2r_exit = "eof"])
            [] OTHER ->
                 Set(Failed([Cur EXCEPT !.l2r = "closing", !.hist.l2r_err = TRUE,
                                        !.hist.l2r_exit = "read_err"]))

\* The end of the local -> remote task: both sockets are shut down.
L2RClose ==
    /\ l2r = "closing"
    /\ Set([Cur EXCEPT !.l2r = "done", !.rShut = TRUE, !.lShut = TRUE,
                       !.holders = @ \ {"l2r"}, !.hist.l2r_shutdown = TRUE])

\* local_writer.into_inner() of the SOCKS5 local <- remote task: the BufWriter
\* writes out what it holds and gives up the stream, or fails and the task returns.
R2LTakeWriter ==
    /\ r2l = "take_writer"
    /\ IF lwbuf = <<>>
       THEN Set([Cur EXCEPT !.r2l = "copy"])
       ELSE \E wf \in WriteFails(lShut) :
               IF wf
               THEN Set(FailedUnless(lShut, [Cur EXCEPT !.r2l = "done",
                                                        !.holders = @ \ {"r2l"}]))
               ELSE Set([Cur EXCEPT !.r2l = "copy", !.cout = @ \o lwbuf,
                                    !.lwbuf = <<>>])

\* One iteration of the loop around copy_once(decrypt_stream, local_writer).
R2LCopy ==
    /\ r2l = "copy"
    /\ \E rd \in RemoteReads :
          CASE rd.kind = "data" ->
                 \E wf \in WriteFails(lShut) :
                    IF wf
                    THEN Set(FailedUnless(lShut,
                             [Cur EXCEPT !.rin = Drop(rin, rd.n), !.r2l = "closing"]))
                    ELSE Set([Cur EXCEPT !.rin = Drop(rin, rd.n),
                                         !.cout = @ \o Take(rin, rd.n)])
            [] rd.kind = "eof" ->
                 Set([Cur EXCEPT !.r2l = "closing"])
            [] OTHER ->
                 Set(Failed([Cur EXCEPT !.r2l = "closing"]))

\* The end of the local <- remote task: flush, then both sockets are shut down.
R2LClose ==
    /\ r2l = "closing"
    /\ Set([Cur EXCEPT !.r2l = "done", !.rShut = TRUE, !.lShut = TRUE,
                       !.holders = @ \ {"r2l"}, !.hist.r2l_shutdown = TRUE])

\* ----------------------------------------------------- HTTP front-end task
\* The front-end hands the connection to handle_http_connect or to
\* handle_http_others with the parsed request and the bytes read past the head.
Dispatch(r, buf, reqlen, request) ==
    [r EXCEPT !.req_buf = buf, !.req = request, !.remain = Drop(buf, reqlen),
              !.hist.addr = TRUE,
              !.fe = IF request.method = "CONNECT" THEN "http_connect" ELSE "http_others"]

\* The Err arm of the match on get_address: write_response(stream_writer,
\* status) with the status get_address gives, which is 400 Bad Request.
AddressErrorMut(r) == [r EXCEPT !.hist.no_addr = TRUE]
AddressError(r) == [r EXCEPT !.cout = @ \o <<"HTTP_400">>, !.hist.no_addr = TRUE]

\* handle_http_client: one iteration of `while let Ok(n) = stream.read(&mut buf)`.
HttpClientRead ==
    /\ proto = "http"
    /\ fe = "start"
    /\ \E rd \in LocalReads :
          IF rd.kind = "err"
          THEN \* try_clone or the read fails: the loop ends without a header
               Set(Return(Failed(Cur)))
          ELSE IF rd.n = 0 /\ req_buf = <<>>
          THEN Set(Return(Cur))
          ELSE \* at end of file with a partial head in req_buf nothing changes:
               \* the read returns 0 again, parse returns Partial again
               LET buf == req_buf \o Take(cin, rd.n)
                   parsed == ParseHead(buf)
                   request == from_raw(buf, parsed.reqlen)
                   r == [Cur EXCEPT !.cin = Drop(cin, rd.n), !.req_buf = buf]
               IN  CASE parsed.status = "Complete" ->
                          IF ~request.ok
                          THEN Set(Return([r EXCEPT !.hist.bad_head = "fe_from_raw"]))
                          ELSE IF ~get_address_ok(request)
                          THEN Set(Return(AddressError(r)))
                          ELSE Set(Dispatch(r, buf, parsed.reqlen, request))
                     [] parsed.status = "Partial" -> Set(r)
                     [] OTHER -> Set(Return([r EXCEPT !.hist.bad_head = "fe_parse"]))

\* The relay tasks of the HTTP paths are spawned; the local -> remote task of
\* the forward-proxy path is the keep-alive driver.
SpawnHttpRelay(r, first) ==
    [r EXCEPT !.fe = "done", !.holders = {"l2r", "r2l"}, !.l2r = first, !.r2l = "copy",
              !.req_buf = <<>>, !.remain = <<>>]

\* handle_http_connect: handshake to the client, dial, the bytes read past the
\* head, spawn.
HandleHttpConnect ==
    /\ fe = "http_connect"
    /\ \E outcome \in {"handshake_err", "dial_err", "write_err", "ok"} :
          CASE outcome = "handshake_err" ->
                 /\ ioErrs < MaxIoErrs
                 /\ Set(Return(Failed(Cur)))
            [] outcome = "dial_err" ->
                 Set(DialFailed([Cur EXCEPT
                                !.cout = @ \o <<"HTTP_200_ConnectionEstablished">>]))
            [] outcome = "write_err" ->
                 /\ ioErrs < MaxIoErrs
                 /\ Set(Return(Failed([Cur EXCEPT !.dialed = "ok",
                                !.cout = @ \o <<"HTTP_200_ConnectionEstablished">>])))
            [] OTHER ->
                 Set(SpawnHttpRelay([Cur EXCEPT !.dialed = "ok",
                                !.cout = @ \o <<"HTTP_200_ConnectionEstablished">>,
                                !.encOut = @ \o remain], "copy"))

\* usize::saturating_sub
saturating_sub(a, b) == IF a >= b THEN a - b ELSE 0

\* handle_http_others: dial, the rewritten head, the bytes read past the head,
\* spawn.
HandleHttpOthers ==
    /\ fe = "http_others"
    /\ LET request == clear_request_uri_host(req)
           content_len == request.content_length
       IN  \E outcome \in {"dial_err", "head_err", "remain_err", "ok"} :
             CASE outcome = "dial_err" ->
                    Set(DialFailed(Cur))
               [] outcome = "head_err" ->
                    /\ ioErrs < MaxIoErrs
                    /\ Set(Return(Failed([Cur EXCEPT !.dialed = "ok"])))
               [] outcome = "remain_err" ->
                    /\ ioErrs < MaxIoErrs
                    /\ Set(Return(Failed([Cur EXCEPT !.dialed = "ok",
                                   !.encOut = @ \o write_to(request)])))
               [] OTHER ->
                    Set(SpawnHttpRelay([Cur EXCEPT !.dialed = "ok",
                                   !.req = request,
                                   !.encOut = @ \o write_to(request) \o remain,
                                   !.remain_len = saturating_sub(content_len, Len(remain)),
                                   !.hist.cur_cl = content_len,
                                   !.hist.body_fwd = Len(remain)], "ka_body"))

\* ------------------------------------------------ HTTP keep-alive driver
\* The driver forwards k bytes; hist records them as body bytes of the current
\* request, and whether they were forwarded after an error of this direction.
Forwarded(r, bytes, as_body) ==
    [r EXCEPT !.encOut = @ \o bytes,
              !.hist.body_fwd = IF as_body THEN @ + Len(bytes) ELSE @,
              !.hist.fwd_after_err = @ \/ (r.hist.l2r_err /\ bytes # <<>>),
              !.hist.fwd_after_eof = @ \/ (r.hist.ka_eof # "none" /\ bytes # <<>>),
              !.hist.fwd_after_bad = @ \/ (r.hist.bad_head # "none" /\ bytes # <<>>)]

\* `1. Send body`: relay::copy_exact(local_reader, encrypt_stream, remain_len),
\* then the flush.  copy_exact forwards remain_len bytes, or forwards fewer and
\* fails: on end of file, on a read error or on a write error.
KaBody ==
    /\ l2r = "ka_body"
    /\ \/ \* copy_exact and the flush succeed
          /\ remain_len <= Len(cin)
          /\ remain_len = 0 \/ ~rShut
          /\ Set([Forwarded([Cur EXCEPT !.cin = Drop(cin, remain_len)],
                            Take(cin, remain_len), TRUE)
                    EXCEPT !.l2r = "ka_head", !.req_buf = <<>>])
       \/ \* copy_exact succeeds, the flush fails: the task returns
          /\ remain_len <= Len(cin)
          /\ remain_len = 0 \/ ~rShut
          /\ ioErrs < MaxIoErrs
          /\ Set(Failed([Forwarded([Cur EXCEPT !.cin = Drop(cin, remain_len)],
                                   Take(cin, remain_len), TRUE)
                    EXCEPT !.l2r = "done", !.holders = @ \ {"l2r"},
                           !.hist.l2r_err = TRUE, !.hist.l2r_exit = "flush_err"]))
       \/ \* copy_exact meets end of file after k bytes
          /\ remain_len > 0
          /\ \E k \in 0..Min(remain_len - 1, Len(cin)) :
                /\ k = Len(cin) \/ lShut
                /\ k = 0 \/ ~rShut
                /\ Set([Forwarded([Cur EXCEPT !.cin = Drop(cin, k)], Take(cin, k), TRUE)
                          EXCEPT !.l2r = "closing", !.hist.l2r_exit = "eof"])
       \/ \* copy_exact meets a read or write error after k bytes
          /\ remain_len > 0
          /\ rShut \/ ioErrs < MaxIoErrs
          /\ \E k \in 0..Min(remain_len - 1, Len(cin)) :
                /\ k = 0 \/ ~rShut
                /\ Set(FailedUnless(rShut,
                        [Forwarded([Cur EXCEPT !.cin = Drop(cin, k)], Take(cin, k), TRUE)
                          EXCEPT !.l2r = "closing", !.hist.l2r_err = TRUE,
                                 !.hist.l2r_exit = "io_err"]))

\* `2. Read another header`: one iteration of
\* `while let Ok(n) = local_reader.read(&mut buf)`.
KaReadHead ==
    /\ l2r = "ka_head"
    /\ \E rd \in LocalReads :
          IF rd.kind = "err"
          THEN \* the while loop ends; 'outer goes round again
               Set(Failed([Cur EXCEPT !.l2r = "ka_body", !.hist.l2r_err = TRUE]))
          ELSE IF rd.n = 0 /\ req_buf = <<>>
          THEN \* break 'outer
               Set([Cur EXCEPT !.l2r = "closing", !.hist.l2r_exit = "eof",
                                   !.hist.ka_eof = "clean"])
          ELSE LET buf == req_buf \o Take(cin, rd.n)
                   parsed == ParseHead(buf)
                   raw == from_raw(buf, parsed.reqlen)
                   request == clear_request_uri_host(raw)
                   rest == Drop(buf, parsed.reqlen)
                   r == [Cur EXCEPT !.cin = Drop(cin, rd.n), !.req_buf = buf,
                                    !.hist.bad_head =
                                        IF parsed.status = "Error" THEN "ka_parse" ELSE @]
               IN  IF parsed.status = "Complete"
                   THEN IF ~raw.ok
                        THEN Set([r EXCEPT !.l2r = "ka_body",
                                           !.hist.bad_head = "ka_from_raw"])
                        ELSE \E wf \in WriteFails(rShut) :
                                IF wf
                                THEN Set(FailedUnless(rShut,
                                         [r EXCEPT !.l2r = "ka_body",
                                                   !.hist.l2r_err = TRUE]))
                                ELSE Set([Forwarded(Forwarded(r, write_to(request), FALSE),
                                                    rest, TRUE)
                                            EXCEPT !.l2r = "ka_body",
                                                   !.req = request,
                                                   !.remain_len =
                                                       saturating_sub(request.content_length,
                                                                      Len(rest)),
                                                   !.hist.cur_cl = request.content_length,
                                                   !.hist.body_fwd = Len(rest)])
                   ELSE IF rd.n = 0
                        THEN \* Unexpected Eof: break
                             Set([r EXCEPT !.l2r = "ka_body", !.hist.ka_eof = "midhead"])
                        ELSE Set(r)

NextConn ==
    \/ SocksHandshake
    \/ SocksRequest
    \/ SocksConnect
    \/ SocksBind
    \/ SocksUdpAssociate
    \/ HttpClientRead
    \/ HandleHttpConnect
    \/ HandleHttpOthers
    \/ L2RCopy
    \/ L2RClose
    \/ R2LTakeWriter
    \/ R2LCopy
    \/ R2LClose
    \/ KaBody
    \/ KaReadHead

\* ----------------------------------------------------------- specifications
Init == InitAcceptor /\ ConnIdle

Next == NextAcceptor

Spec == Init /\ [][Next]_vars

\* The acceptor part while only one connection is modelled: a pool of one
\* upstream, nothing accepted yet.
AcceptorIdle ==
    /\ server = <<"h1">> /\ forbidden_ip = {} /\ dns = [h \in Hosts |-> "ip1"]
    /\ dnsChanges = 0 /\ index = 0 /\ cached_proxy = [h \in Hosts |-> NoAddr]
    /\ acpt = "accept" /\ attempt = 0 /\ accepted = 0 /\ handed = <<>> /\ dropped = 0
    /\ qlog = [h \in Hosts |-> NotQueried]

InitConnection == InitConn /\ AcceptorIdle

SpecConn == InitConnection /\ [][NextConn]_vars

\* Scheduling: every task that can take a step eventually takes one.  Fairness
\* asks for the steps of the tasks only; it never asks the environment to fail
\* an I/O operation.
FrontEndStep ==
    \/ SocksHandshake \/ SocksRequest \/ SocksConnect \/ SocksBind \/ SocksUdpAssociate
    \/ HttpClientRead \/ HandleHttpConnect \/ HandleHttpOthers
L2RStep == L2RCopy \/ L2RClose \/ KaBody \/ KaReadHead
R2LStep == R2LTakeWriter \/ R2LCopy \/ R2LClose

FairSpecConn ==
    /\ SpecConn
    /\ WF_vars(FrontEndStep /\ ioErrs' = ioErrs)
    /\ WF_vars(L2RStep /\ ioErrs' = ioErrs)
    /\ WF_vars(R2LStep /\ ioErrs' = ioErrs)

\* ------------------------------------------------------------ observations
LocalClosed == lShut \/ holders = {}
NoTaskRunning == fe = "done" /\ l2r \in {"none", "done"} /\ r2l \in {"none", "done"}
RelayDone == l2r = "done" /\ r2l = "done"
\* The response bytes that reached the client, and those taken from decrypt_stream.
Relayed == SelectSeq(cout, IsResp)
TakenFromRemote == Take(hist.resp, Len(hist.resp) - Len(rin))
IsConnectRelay == proto = "socks5" \/ req.method = "CONNECT"

\* ------------------------------------------------------------------ claims

\* C1: every server address that run_server passes to the front-end handler
\* has an IP that is not a member of forbidden_ip.
C1_HandedNotForbidden ==
    \A i \in 1..Len(handed) : handed[i].ip \notin forbidden_ip

\* C1 witness: a later connection is handed an allowed address while the DNS
\* cache holds a forbidden one, which its candidate was skipped for.
C1_Witness ==
    /\ Len(handed) >= 2
    /\ \E h \in Hosts : cached_proxy[h] \in forbidden_ip
    /\ handed[Len(handed)].ip \notin forbidden_ip

\* C2: when every upstream fails for one accepted connection only that
\* connection is dropped; the acceptor stays alive and the process is not aborted.
C2_AcceptorSurvivesExhaustion ==
    ~(acpt = "panicked" /\ accepted > 0 /\ attempt = total)

\* C3: the shutdowns of the direction that exits first do not keep the other
\* direction from delivering every byte it has yet to carry: with no I/O
\* failure from outside, once both tasks are done the client has received the
\* whole response of the remote.
C3_OtherDirectionDrains ==
    (RelayDone /\ ioErrs = 0) => Relayed = hist.resp

\* C4: under fair scheduling, with both peers reaching end of file or an
\* error, eventually the local socket is closed and no task of the connection
\* remains.
C4_EventuallyReleased == <>(NoTaskRunning /\ LocalClosed)

\* C5: on the forward-proxy path no request head reaches the remote in
\* absolute form, however the client's bytes are split across reads.
C5_HeadsOriginForm ==
    \A i \in 1..Len(encOut) : encOut[i] \notin AbsoluteForm

\* C6: after a CONNECT the bytes delivered to encrypt_stream are the client's
\* payload P, and the bytes written to the local socket are the bytes read from
\* decrypt_stream, under every interleaving of the two direction tasks.
C6_BytesPreserved ==
    (RelayDone /\ ioErrs = 0 /\ IsConnectRelay)
        => (encOut = hist.payload /\ Relayed = TakenFromRemote)

\* C7: when the dial fails the client is sent GeneralFailure (SOCKS5) or 502
\* Bad Gateway (HTTP), sees no success response, and no relay task is spawned.
C7_DialFailureReported ==
    (dialed = "failed" /\ fe = "done")
        => /\ \E i \in 1..Len(cout) :
                 cout[i] = (IF proto = "socks5" THEN "REP_GeneralFailure_sockname"
                                                ELSE "HTTP_502")
           /\ \A i \in 1..Len(cout) :
                 cout[i] \notin {"REP_Succeeded_sockname", "HTTP_200_ConnectionEstablished"}
           /\ l2r = "none" /\ r2l = "none"

\* C8: no byte is written to encrypt_stream before the front-end has produced
\* a destination address and the dial has succeeded.
C8_NoBytesBeforeDial ==
    encOut # <<>> => (dialed = "ok" /\ hist.addr)

\* C8 witness: an HTTP CONNECT whose bytes read past the head were forwarded
\* after the dial, with the relay running.
C8_Witness ==
    /\ proto = "http" /\ req.method = "CONNECT" /\ dialed = "ok"
    /\ encOut # <<>> /\ encOut = hist.payload /\ l2r = "copy"

\* C9: for every request of the forward-proxy path the driver forwards exactly
\* Content-Length body bytes before it parses the next head, and never a byte
\* beyond the body as body.
C9_ExactBody ==
    /\ hist.body_fwd <= hist.cur_cl
    /\ (l2r = "ka_head" /\ req_buf = <<>> /\ ioErrs = 0) => hist.body_fwd = hist.cur_cl

\* C10: a read or write error in a direction task closes that direction: the
\* task forwards nothing further, leaves its loop and performs its shutdowns.
C10_ErrorClosesDirection ==
    /\ ~hist.fwd_after_err
    /\ (l2r = "done" /\ hist.l2r_err) => hist.l2r_shutdown

\* C11: in the HTTP front-end, once the peer has closed after sending only a
\* part of the first request head, the front-end terminates (and, having
\* terminated, has made no dial and spawned no relay task).
C11_PartialHeadTerminates ==
    (proto = "http" /\ fe = "start" /\ cin = <<>> /\ req_buf # <<>>)
        ~> (fe = "done" /\ dialed = "no" /\ l2r = "none" /\ r2l = "none")

\* The failure responses of the HTTP front-end (super::http::write_response).
HttpFailureResponses == {"HTTP_400", "HTTP_502"}

\* C12: in the keep-alive driver, after end of file from the client, before any
\* byte of a new head or in the middle of one, the driver forwards no further
\* byte to the remote, and when it has exited it has performed its shutdowns.
C12_EofEndsDriver ==
    /\ ~hist.fwd_after_eof
    /\ (l2r = "done" /\ hist.ka_eof # "none") => hist.l2r_shutdown

\* C13: a malformed HTTP head, the first one in the front-end or a later one
\* in the keep-alive driver, is answered with a failure response and the
\* connection is closed, and nothing is forwarded to the remote after it.
C13_MalformedHeadAnswered ==
    /\ ~hist.fwd_after_bad
    /\ (hist.bad_head # "none" /\ NoTaskRunning)
           => /\ \E i \in 1..Len(cout) : cout[i] \in HttpFailureResponses
              /\ LocalClosed

\* The position in cout of the SOCKS5 success reply of a CONNECT, 0 if none.
SuccessReplyAt ==
    IF \E i \in 1..Len(cout) : cout[i] = "REP_Succeeded_sockname"
    THEN CHOOSE i \in 1..Len(cout) : cout[i] = "REP_Succeeded_sockname"
    ELSE 0

\* C14: when the method list of the SOCKS5 greeting holds no no-auth method the
\* front-end replies with method 0xFF and terminates: no no-auth reply is
\* sent, no request is read, no dial is made and no relay task is spawned.
C14_NoAcceptableMethod ==
    (hist.greeting \in Greetings /\ hist.greeting # "HS_NOAUTH")
        => /\ fe = "done" /\ holders = {}
           /\ cout = <<"M_NOT_ACCEPTABLE">>
           /\ hist.command = "none" /\ hist.req_err = "none"
           /\ dialed = "no" /\ l2r = "none" /\ r2l = "none"

\* C14 witness: a greeting without no-auth was answered with 0xFF and the
\* connection ended while a request of the client was still unread.
C14_Witness ==
    /\ hist.greeting = "HS_GSSAPI" /\ cout = <<"M_NOT_ACCEPTABLE">>
    /\ fe = "done" /\ cin # <<>> /\ Head(cin) = "RQ_CONNECT"

\* C15: for a SOCKS5 CONNECT the success reply is written to the client only
\* after the dial has succeeded, it carries the client's peer address, every
\* relayed byte in the client's stream comes after it, and the relay tasks
\* exist only once it is written.
C15_SuccessReplyOrder ==
    proto = "socks5"
        => /\ SuccessReplyAt # 0 => (dialed = "ok" /\ hist.command = "RQ_CONNECT")
           /\ hist.command = "RQ_CONNECT"
                 => \A i \in 1..Len(cout) :
                       cout[i] \notin {"REP_Succeeded_addr", "REP_Succeeded_localconf"}
           /\ \A i \in 1..Len(cout) :
                 IsResp(cout[i]) => (SuccessReplyAt # 0 /\ SuccessReplyAt < i)
           /\ (l2r # "none" \/ r2l # "none") => SuccessReplyAt # 0

\* C15 witness: after the dial the reply with the peer address was written,
\* and a response byte of the remote followed it.
C15_Witness ==
    /\ proto = "socks5" /\ dialed = "ok"
    /\ cout = <<"M_NONE", "REP_Succeeded_sockname", "r1">>

\* C16: a SOCKS5 BIND request is answered, after the no-auth method reply,
\* with a CommandNotSupported reply and the connection ends; no dial is made
\* and no relay task is spawned.
C16_BindNotSupported ==
    hist.command = "RQ_BIND"
        => /\ dialed = "no" /\ l2r = "none" /\ r2l = "none"
           /\ fe \in {"bind", "done"}
           /\ fe = "done" => holders = {}
           /\ (fe = "done" /\ ioErrs = 0)
                 => cout = <<"M_NONE", "REP_CommandNotSupported_addr">>

\* C16 witness: the BIND was refused and the connection has ended.
C16_Witness ==
    /\ hist.command = "RQ_BIND" /\ fe = "done" /\ holders = {}
    /\ cout = <<"M_NONE", "REP_CommandNotSupported_addr">>

\* C17: a SOCKS5 UDP_ASSOCIATE request gets a Succeeded reply with the
\* configured local endpoint when UDP is enabled and a CommandNotSupported
\* reply when it is disabled; in both cases no dial is made and no relay task
\* is spawned on the TCP connection.
C17_UdpAssociateReply ==
    hist.command = "RQ_UDP"
        => /\ dialed = "no" /\ l2r = "none" /\ r2l = "none"
           /\ fe \in {"udp_associate", "done"}
           /\ fe = "done" => holders = {}
           /\ (fe = "done" /\ ioErrs = 0)
                 => cout = <<"M_NONE", IF enable_udp THEN "REP_Succeeded_localconf"
                                                     ELSE "REP_CommandNotSupported_addr">>

\* C17 witness: with UDP enabled the reply carrying the local endpoint was
\* sent and the connection has ended.
C17_Witness ==
    /\ hist.command = "RQ_UDP" /\ enable_udp /\ fe = "done"
    /\ cout = <<"M_NONE", "REP_Succeeded_localconf">>

\* C18: when parsing the SOCKS5 request fails the client is sent a failure
\* reply with the code the parser's error suggests and the client's peer
\* address, and the connection terminates with no dial and no relay task.
C18_RequestParseFailure ==
    hist.req_err # "none"
        => /\ fe = "done" /\ holders = {}
           /\ dialed = "no" /\ l2r = "none" /\ r2l = "none"
           /\ cout = <<"M_NONE", IF hist.req_err = "bad"
                                 THEN "REP_AddressTypeNotSupported_sockname"
                                 ELSE "REP_GeneralFailure_sockname">>

\* C18 witness: a request that does not parse was answered with the parser's
\* code and the peer address.
C18_Witness ==
    /\ hist.req_err = "bad" /\ fe = "done"
    /\ cout = <<"M_NONE", "REP_AddressTypeNotSupported_sockname">>

\* The host of the upstream a handler invocation was given.
HandedHost(i) == server[handed[i].slot + 1]

\* C19 as stated: for every host the selector queries twice the second query
\* makes no system resolver call, whatever the outcome of the first query.
C19_SecondQueryNoLookup ==
    \A h \in Hosts : ~qlog[h].relooked

\* C19 as amended: for every host of which an earlier query has produced an
\* address, no later query makes a system resolver call.
C19_ResolvedNotLookedUpAgain ==
    \A h \in Hosts : ~qlog[h].relooked_resolved

\* C19 witness: two connections were handed the same host, the second one
\* from the cache, although the resolver no longer answers for that host.
C19_Witness ==
    /\ \E i, j \in 1..Len(handed) : i < j /\ HandedHost(i) = HandedHost(j)
                                        /\ dns[HandedHost(j)] \notin IPs
                                        /\ ~qlog[HandedHost(j)].relooked

\* All upstreams are healthy, and have been since the start: each host
\* resolves to an address that is not forbidden.
AllHealthy ==
    /\ dnsChanges = 0
    /\ \A i \in 1..total : dns[server[i]] \in IPs \ forbidden_ip

\* The number of handler invocations that were given the upstream at slot.
HandedTo(slot) == Cardinality({i \in 1..Len(handed) : handed[i].slot = slot})

\* c is K/N plus or minus 1, for N = total.
WithinOne(c, K) == c * total <= K + total /\ K <= c * total + total

\* C20 as stated: over K accepted connections with all of the N upstreams
\* healthy, each upstream is handed to a handler K/N times, plus or minus 1
\* (counted when the acceptor is back at accepting, no connection in hand).
C20_RoundRobinOverAccepted ==
    (AllHealthy /\ acpt = "accept")
        => \A slot \in 0..(total - 1) : WithinOne(HandedTo(slot), accepted)

\* C20 as amended: the same over the K accepted connections whose socket
\* options were set, which are those that reach the selector.
C20_RoundRobinOverSelected ==
    (AllHealthy /\ acpt = "accept")
        => \A slot \in 0..(total - 1) : WithinOne(HandedTo(slot), accepted - dropped)

\* C20 witness: three connections over a healthy pool of two, one upstream
\* handed twice and the other once.
C20_Witness ==
    /\ AllHealthy /\ total = 2 /\ Len(handed) = 3 /\ acpt = "accept"
    /\ HandedTo(1) = 2 /\ HandedTo(0) = 1

\* The pool is [U1, U2], the resolver's answers are stable, U1 resolves to a
\* forbidden IP and U2 to an allowed one.
RotationCase ==
    /\ total = 2 /\ dnsChanges = 0
    /\ dns[server[1]] \in forbidden_ip
    /\ dns[server[2]] \in IPs \ forbidden_ip

C22_SocketOptionFailureDrops ==
    [][ /\ (acpt = "opts" /\ acpt' = "accept")
              => /\ handed' = handed /\ index' = index /\ cached_proxy' = cached_proxy
                 /\ dropped' = dropped + 1 /\ accepted' = accepted
        /\ (acpt = "accept" /\ acpt' = "panicked")
              => /\ handed' = handed /\ accepted' = accepted
        /\ acpt = "panicked" => acpt' = "panicked"
        /\ \A i \in 1..Len(handed') : handed'[i].conn <= accepted'
      ]_vars

\* C22 witness: the first connection was dropped for its socket options, the
\* acceptor went on, and the second connection was handed from the cursor
\* position the first one had found.
C22_Witness ==
    /\ acpt = "accept" /\ dropped = 1 /\ accepted = 2
    /\ Len(handed) = 1 /\ handed[1].conn = 2 /\ handed[1].slot = pick_server_index(0)
    /\ total = 2

\* C23: in the HTTP front-end, when the target of the first request gives no
\* destination address (a target that is not in absolute form, for a method
\* other than CONNECT) the client is sent 400 Bad Request and the front-end
\* terminates: no dial, nothing forwarded, no relay task.
C23_NoAddressBadRequest ==
    hist.no_addr
        => /\ fe = "done" /\ holders = {}
           /\ cout = <<"HTTP_400">>
           /\ dialed = "no" /\ encOut = <<>>
           /\ l2r = "none" /\ r2l = "none"

\* C23 witness: a GET in origin form was answered with 400 and the connection
\* has ended.
C23_Witness ==
    /\ proto = "http" /\ hist.no_addr /\ fe = "done"
    /\ cout = <<"HTTP_400">> /\ ~hist.addr

\* C24: every direction task, on every path by which it exits (end of file,
\* read error, write error, flush error, failure to take the local writer out
\* of its buffer), has shut down both endpoints it holds before it ends.
C24_EveryExitShutsDown ==
    /\ l2r = "done" => (hist.l2r_shutdown /\ lShut /\ rShut)
    /\ r2l = "done" => (hist.r2l_shutdown /\ lShut /\ rShut)

\* C25: for each connection that has passed the socket-option step the
\* selector tries between 1 and N candidates, advances the round-robin cursor
\* exactly once per candidate tried, stops at the first usable candidate and
\* invokes the handler at most once (exactly once when a usable candidate is
\* found); nothing but a candidate attempt advances the cursor.
C25_OnePickPerCandidate ==
    [][ LET tried == acpt = "pick" /\ (attempt' # attempt \/ handed' # handed)
            res == ResolveCandidate(server[((index + 1) % total) + 1])
            usable == res.ok /\ res.ip \notin forbidden_ip
        IN  /\ tried => (index' = (index + 1) % total /\ attempt < total)
            /\ ~tried => (index' = index /\ handed' = handed)
            /\ attempt' <= total
            /\ (tried /\ usable)
                  => /\ Len(handed') = Len(handed) + 1
                     /\ handed'[Len(handed')].conn = accepted
                     /\ handed'[Len(handed')].slot = index'
                     /\ acpt' = "accept"
            /\ (tried /\ ~usable) => (handed' = handed /\ attempt' = attempt + 1)
            /\ \A i, j \in 1..Len(handed') : i < j => handed'[i].conn < handed'[j].conn
      ]_vars

\* C25 witness: for the latest connection the selector tried two candidates
\* of a pool of two, skipped the first and handed the second, with the cursor
\* left on it.
C25_Witness ==
    /\ acpt = "accept" /\ total = 2 /\ attempt = 1 /\ accepted = 2
    /\ Len(handed) = 2 /\ handed[2].conn = 2 /\ handed[2].slot = index

====
